---------------------------- MODULE Spec2Model ----------------------------
(***************************************************************************)
(* Model of the shape arithmetic of prettytensor/pretty_tensor_methods.py: *)
(* _infer_unknown_dims, reshape, flatten, _check_split_dims, split, unzip. *)
(*                                                                         *)
(* A Python value that can sit in a shape or a shape spec is a record      *)
(* [t, v]: an integer n is [t |-> "int", v |-> n], None is                 *)
(* [t |-> "None", v |-> 0] and the one-character strings DIM_SAME ('_')    *)
(* and DIM_REST ('*') are [t |-> "str", v |-> 0 or 1].  Lists are          *)
(* sequences; Python's index i is the sequence index i + 1.                *)
(***************************************************************************)
EXTENDS Integers, Sequences, FiniteSets, TLC

VARIABLES pc, old_shape, shape_spec, preserve_batch, split_dim, num_splits,
          exc, why, result, new_shape, reshape_tensor, shape_arg, splits

vars == <<pc, old_shape, shape_spec, preserve_batch, split_dim, num_splits,
          exc, why, result, new_shape, reshape_tensor, shape_arg, splits>>

(***************************************************************************)
(* Bounds of the model.                                                    *)
(***************************************************************************)
MaxRank == 2
MaxSpecLen == 2
MaxSplits == 3

(***************************************************************************)
(* Python values.                                                          *)
(***************************************************************************)
IntV(n) == [t |-> "int", v |-> n]
None == [t |-> "None", v |-> 0]
DIM_SAME == [t |-> "str", v |-> 0]
DIM_REST == [t |-> "str", v |-> 1]

IsInt(x) == x.t = "int"

\* Truth value of a shape entry: None and 0 are false.
Truthy(x) == IsInt(x) /\ x.v # 0

Abs(n) == IF n < 0 THEN -n ELSE n

\* a % b of Python for b # 0: the result has the sign of the divisor.
PyMod(a, b) == IF b > 0 THEN a % b ELSE -((-a) % (-b))

\* int(a / b) of Python under true division, b # 0: truncation toward zero.
PyIntTrueDiv(a, b) ==
    IF (a < 0) = (b < 0) THEN Abs(a) \div Abs(b) ELSE -(Abs(a) \div Abs(b))

RECURSIVE Product(_)
Product(s) == IF s = <<>> THEN 1 ELSE Head(s) * Product(Tail(s))

(***************************************************************************)
(* The inputs.                                                             *)
(***************************************************************************)
SeqsUpTo(S, n) == UNION {[1..k -> S] : k \in 0..n}

\* Sizes of the known dimensions and the integers of a shape spec.
DimSizes == {0, 1, 2, 3, 4, 5, 6}
SpecInts == {-2, -1, 0, 2, 3}

DimValues == {None} \cup {IntV(n) : n \in DimSizes}
SpecValues == {DIM_SAME, DIM_REST, None} \cup {IntV(n) : n \in SpecInts}
Shapes == SeqsUpTo(DimValues, MaxRank)
ShapeSpecs == SeqsUpTo(SpecValues, MaxSpecLen)
KnownShapes == SeqsUpTo({IntV(n) : n \in DimSizes}, MaxRank)

(***************************************************************************)
(* _infer_unknown_dims                                                     *)
(***************************************************************************)
\* Variant of NumeratorElement: 1 in place of an unknown dimension.
NumeratorElementOne(x) == IF Truthy(x) THEN x.v ELSE 1

\* numerator_elements = [x if x else 0 for x in old_shape]
NumeratorElement(x) == IF Truthy(x) THEN x.v ELSE 0

NumeratorElements(shape) == [k \in 1..Len(shape) |-> NumeratorElement(shape[k])]

\* Variant of ExceedsInput: i > len(old_shape).
ExceedsInputOffByOne(k, shape) == k > Len(shape) + 1

\* if i >= len(old_shape), for the sequence index k = i + 1
ExceedsInput(k, shape) == k > Len(shape)

\* Variant of CopiedDim: the first input dimension whatever the index.
CopiedDimHead(shape, k) == IF Head(shape) = None THEN DIM_SAME ELSE Head(shape)

\* the value appended for a DIM_SAME entry
CopiedDim(shape, k) == IF shape[k] = None THEN DIM_SAME ELSE shape[k]

\* elif s in (DIM_REST, -1, None)
IsUnknownEntry(s) == s \in {DIM_REST, IntV(-1), None}

\* One iteration of the for loop over shape_spec; st holds the locals.
\* old_shape[i] of a list raises IndexError for an index beyond its end.
LoopBody(st, shape, s, k) ==
    IF s = DIM_SAME
      THEN IF ExceedsInput(k, shape)
             THEN [st EXCEPT !.exc = "ValueError", !.why = "exceeds_input"]
           ELSE IF k > Len(shape)
             THEN [st EXCEPT !.exc = "IndexError", !.why = "list_index"]
           ELSE [st EXCEPT !.result = Append(@, CopiedDim(shape, k)),
                           !.numerator_elements[k] = 1]
    ELSE IF IsUnknownEntry(s)
      THEN [st EXCEPT !.result = Append(@, IntV(-1)),
                      !.unknowns = @ + 1]
    ELSE [st EXCEPT !.result = Append(@, IntV(s.v)),
                    !.denominator = @ * s.v]

RECURSIVE Loop(_, _, _, _)
Loop(st, shape, spec, k) ==
    IF k > Len(spec) \/ st.exc # "none"
      THEN st
      ELSE Loop(LoopBody(st, shape, spec[k], k), shape, spec, k + 1)

\* Variant of TooManyUnknowns: two wildcards let through.
TooManyUnknownsLax(unknowns) == unknowns > 2

\* if unknowns > 1
TooManyUnknowns(unknowns) == unknowns > 1

\* Variant of NotDivisible: the divisibility check dropped.
NotDivisibleNever(numerator, denominator) == FALSE

\* elif numerator % denominator != 0, for denominator # 0
NotDivisible(numerator, denominator) == PyMod(numerator, denominator) # 0

\* Variant of SizeMismatch: the size comparison dropped.
SizeMismatchNever(unknowns, numerator, denominator) == FALSE

\* elif unknowns == 0 and numerator > 0 and numerator != denominator
SizeMismatch(unknowns, numerator, denominator) ==
    unknowns = 0 /\ numerator > 0 /\ numerator # denominator

\* Variant of UnknownElements: the numerator left undivided.
UnknownElementsUndivided(numerator, denominator) == numerator

\* unknown_elements = int(numerator / denominator)
UnknownElements(numerator, denominator) == PyIntTrueDiv(numerator, denominator)

\* [unknown_elements if x == -1 else x for x in result]
FillUnknown(res, unknown_elements) ==
    [k \in 1..Len(res) |-> IF res[k] = IntV(-1) THEN IntV(unknown_elements)
                           ELSE res[k]]

Raise(e, w) == [exc |-> e, why |-> w, value |-> <<>>]
Return(x) == [exc |-> "none", why |-> "none", value |-> x]

InferUnknownDims(shape, spec) ==
    LET st0 == [numerator_elements |-> NumeratorElements(shape),
                denominator |-> 1, unknowns |-> 0, result |-> <<>>,
                exc |-> "none", why |-> "none"]
        st == Loop(st0, shape, spec, 1)
        numerator == Product(st.numerator_elements)
    IN  IF st.exc # "none" THEN Raise(st.exc, st.why)
        ELSE IF TooManyUnknowns(st.unknowns)
          THEN Raise("ValueError", "too_many_unknowns")
        ELSE IF st.denominator = 0
          THEN Raise("ZeroDivisionError", "modulo_by_zero")
        ELSE IF NotDivisible(numerator, st.denominator)
          THEN Raise("ValueError", "cannot_reshape")
        ELSE IF SizeMismatch(st.unknowns, numerator, st.denominator)
          THEN Raise("ValueError", "cannot_reshape")
        ELSE IF numerator # 0 /\ st.unknowns # 0
          THEN Return(FillUnknown(st.result,
                                  UnknownElements(numerator, st.denominator)))
        ELSE Return(st.result)

(***************************************************************************)
(* reshape                                                                 *)
(***************************************************************************)
TfConstant(runner) == [op |-> "constant", value |-> runner, index |-> 0]
TfGather(i) == [op |-> "gather", value |-> <<>>, index |-> i]
TfConcat(pieces) == [op |-> "concat", value |-> pieces, index |-> 0]

\* No shape argument: reshape has not built one.
NoArgument == [op |-> "none", value |-> <<>>, index |-> 0]

\* One iteration of the loop over new_shape; i is the Python index k - 1.
ReshapeBody(st, s, k) ==
    IF s = DIM_SAME
      THEN [st EXCEPT !.new_shape[k] = None,
                      !.reshape_tensor =
                          (IF st.runner # <<>>
                             THEN Append(@, TfConstant(st.runner)) ELSE @)
                          \o <<TfGather(k - 1)>>,
                      !.runner = <<>>]
      ELSE [st EXCEPT !.runner = Append(@, s),
                      !.new_shape[k] = IF s = IntV(-1) THEN None ELSE @]

RECURSIVE ReshapeLoop(_, _, _)
ReshapeLoop(st, shape, k) ==
    IF k > Len(shape) THEN st
    ELSE ReshapeLoop(ReshapeBody(st, shape[k], k), shape, k + 1)

\* The pieces of the shape argument and the static shape set on the result.
ReshapePieces(inferred) ==
    LET st == ReshapeLoop([new_shape |-> inferred, reshape_tensor |-> <<>>,
                           runner |-> <<>>], inferred, 1)
    IN  [new_shape |-> st.new_shape,
         reshape_tensor |-> IF st.runner # <<>>
                              THEN Append(st.reshape_tensor, TfConstant(st.runner))
                              ELSE st.reshape_tensor]

\* if len(reshape_tensor) == 1: reshape_tensor[0], else tf.concat(0, ...)
ShapeArgument(pieces) ==
    IF Len(pieces) = 1 THEN pieces[1] ELSE TfConcat(pieces)

(***************************************************************************)
(* flatten                                                                 *)
(***************************************************************************)
\* Variant of FlattenSpec: the batch dimension never preserved.
FlattenSpecNoBatch(pb) == <<IntV(-1)>>

FlattenSpec(pb) == IF pb THEN <<DIM_SAME, IntV(-1)>> ELSE <<IntV(-1)>>

(***************************************************************************)
(* _check_split_dims                                                       *)
(***************************************************************************)
\* if split_dim >= len(shape)
SplitDimOutOfBounds(sd, shape) == sd >= Len(shape)

\* shape[split_dim] of a Python list: a negative index counts from the end.
CheckSplitDims(ns, sd, shape) ==
    IF SplitDimOutOfBounds(sd, shape)
      THEN Raise("ValueError", "split_dim_out_of_bounds")
    ELSE IF sd < -Len(shape)
      THEN Raise("IndexError", "list_index")
    ELSE LET d == shape[IF sd < 0 THEN Len(shape) + sd + 1 ELSE sd + 1]
         IN  IF ns = 0
               THEN Raise("ZeroDivisionError", "modulo_by_zero")
             ELSE IF PyMod(d.v, ns) # 0
               THEN Raise("ValueError", "not_divided_evenly")
             ELSE Return(<<>>)

(***************************************************************************)
(* The calls.  Each specification starts with the arguments of one call    *)
(* and its actions are the calls themselves.                               *)
(***************************************************************************)
NoCall ==
    /\ pc = "start"
    /\ exc = "none"
    /\ why = "none"
    /\ result = <<>>
    /\ new_shape = <<>>
    /\ reshape_tensor = <<>>
    /\ shape_arg = NoArgument
    /\ splits = 0

Init ==
    /\ NoCall
    /\ old_shape \in Shapes
    /\ shape_spec \in ShapeSpecs
    /\ preserve_batch = TRUE
    /\ split_dim = 0
    /\ num_splits = 2

CallInferUnknownDims ==
    /\ pc = "start"
    /\ LET r == InferUnknownDims(old_shape, shape_spec)
       IN  /\ exc' = r.exc
           /\ why' = r.why
           /\ result' = r.value
    /\ pc' = "infer"
    /\ UNCHANGED <<old_shape, shape_spec, preserve_batch, split_dim,
                   num_splits, new_shape, reshape_tensor, shape_arg, splits>>

\* reshape(input_layer, spec) on the locals of the call
ReshapeWith(spec) ==
    LET r == InferUnknownDims(old_shape, spec)
        p == ReshapePieces(r.value)
    IN  /\ exc' = r.exc
        /\ why' = r.why
        /\ result' = r.value
        /\ new_shape' = IF r.exc = "none" THEN p.new_shape ELSE <<>>
        /\ reshape_tensor' = IF r.exc = "none" THEN p.reshape_tensor ELSE <<>>
        /\ shape_arg' = IF r.exc = "none" THEN ShapeArgument(p.reshape_tensor)
                        ELSE NoArgument

CallReshape ==
    /\ pc = "start"
    /\ ReshapeWith(shape_spec)
    /\ pc' = "reshape"
    /\ UNCHANGED <<old_shape, shape_spec, preserve_batch, split_dim,
                   num_splits, splits>>

CallFlatten ==
    /\ pc = "start"
    /\ \E pb \in BOOLEAN :
          /\ preserve_batch' = pb
          /\ shape_spec' = FlattenSpec(pb)
          /\ ReshapeWith(FlattenSpec(pb))
    /\ pc' = "flatten"
    /\ UNCHANGED <<old_shape, split_dim, num_splits, splits>>

Next == CallInferUnknownDims \/ CallReshape \/ CallFlatten

Spec == Init /\ [][Next]_vars

InitSplit ==
    /\ NoCall
    /\ old_shape \in KnownShapes
    /\ shape_spec = <<>>
    /\ preserve_batch = TRUE
    /\ split_dim \in -(MaxRank + 1)..(MaxRank + 1)
    /\ num_splits \in 0..MaxSplits

SplitWith(name) ==
    /\ pc = "start"
    /\ LET r == CheckSplitDims(num_splits, split_dim, old_shape)
       IN  /\ exc' = r.exc
           /\ why' = r.why
           /\ splits' = IF r.exc = "none" THEN num_splits ELSE 0
    /\ pc' = name
    /\ UNCHANGED <<old_shape, shape_spec, preserve_batch, split_dim,
                   num_splits, result, new_shape, reshape_tensor, shape_arg>>

CallSplit == SplitWith("split")

CallUnzip == SplitWith("unzip")

NextSplit == CallSplit \/ CallUnzip

SpecSplit == InitSplit /\ [][NextSplit]_vars

(***************************************************************************)
(* Vocabulary of the properties, read off the arguments of the call.       *)
(***************************************************************************)
Idx(s) == 1..Len(s)

\* Positions of the copy-markers, the wildcards and the explicit integers.
Copied(spec) == {k \in Idx(spec) : spec[k] = DIM_SAME}
Wildcards(spec) == {k \in Idx(spec) : spec[k] \in {DIM_REST, IntV(-1), None}}
Explicit(spec) == Idx(spec) \ (Copied(spec) \cup Wildcards(spec))

\* Input dimensions that the spec does not mark for copying.
NotCopied(shape, spec) == Idx(shape) \ Copied(spec)

\* A known dimension: a positive integer.
Known(x) == x.t = "int" /\ x.v > 0

RECURSIVE ProdIdx(_, _)
ProdIdx(f, S) ==
    IF S = {} THEN 1
    ELSE LET k == CHOOSE x \in S : TRUE IN f[k].v * ProdIdx(f, S \ {k})

Divides(d, n) == \E q \in -Abs(n)..Abs(n) : q * d = n

Called == pc \in {"infer", "reshape", "flatten"}
Returned == Called /\ exc = "none"
Reshaped == pc \in {"reshape", "flatten"} /\ exc = "none"

\* C1: with all input dimensions known and a spec of copy-markers and
\* explicit integers only, a returned shape has the product of the input
\* dimensions.
C1_ProductPreserved ==
    (/\ Returned
     /\ \A k \in Idx(old_shape) : Known(old_shape[k])
     /\ Wildcards(shape_spec) = {})
    => /\ Len(result) = Len(shape_spec)
       /\ ProdIdx(result, Idx(result)) = ProdIdx(old_shape, Idx(old_shape))

C1_Witness ==
    /\ pc = "infer"
    /\ old_shape = <<IntV(6)>>
    /\ shape_spec = <<IntV(2), IntV(3)>>
    /\ result = <<IntV(2), IntV(3)>>

\* C2: with exactly one wildcard and every non-copied input dimension
\* known, a returned shape has (product of the non-copied input dimensions)
\* / (product of the explicit integers) at the wildcard's position, also when
\* a copied dimension is unknown; reshape reports that copied dimension as
\* unknown.
C2_WildcardResolved ==
    (/\ Returned
     /\ Cardinality(Wildcards(shape_spec)) = 1
     /\ \A k \in NotCopied(old_shape, shape_spec) : Known(old_shape[k]))
    => LET w == CHOOSE k \in Wildcards(shape_spec) : TRUE
           n == ProdIdx(old_shape, NotCopied(old_shape, shape_spec))
           d == ProdIdx(shape_spec, Explicit(shape_spec))
       IN  /\ result[w].t = "int"
           /\ result[w].v * d = n
           /\ Reshaped =>
                \A k \in Copied(shape_spec) :
                    old_shape[k] = None => new_shape[k] = None

C2_Witness ==
    /\ pc = "infer"
    /\ old_shape = <<IntV(4), IntV(6)>>
    /\ shape_spec = <<IntV(2), IntV(-1)>>
    /\ result = <<IntV(2), IntV(12)>>

\* C3: a spec with two or more wildcards is always rejected with a
\* ValueError, and a spec with at most one wildcard is never rejected for
\* its wildcard count.
C3_AtMostOneWildcard ==
    Called =>
      /\ Cardinality(Wildcards(shape_spec)) >= 2 =>
           exc = "ValueError" /\ result = <<>>
      /\ Cardinality(Wildcards(shape_spec)) <= 1 => why # "too_many_unknowns"

C3_Witness ==
    /\ pc = "infer"
    /\ old_shape = <<IntV(4), IntV(6)>>
    /\ shape_spec = <<DIM_REST, IntV(-1)>>
    /\ exc = "ValueError"
    /\ why = "too_many_unknowns"

HasUnknownNotCopied ==
    \E k \in NotCopied(old_shape, shape_spec) : old_shape[k] = None

\* Product of the known non-copied dimensions, 1 standing for the others.
ProdKnownNotCopied ==
    ProdIdx(old_shape,
            {k \in NotCopied(old_shape, shape_spec) : Known(old_shape[k])})

\* C5 as stated: with an unknown non-copied input dimension, 1 stands for it
\* in the numerator and a single wildcard is resolved to
\* (product of the known non-copied dimensions) / (product of the integers).
C5_AsStated ==
    (/\ Returned
     /\ HasUnknownNotCopied
     /\ Cardinality(Wildcards(shape_spec)) = 1)
    => LET w == CHOOSE k \in Wildcards(shape_spec) : TRUE
       IN  /\ result[w].t = "int"
           /\ result[w].v * ProdIdx(shape_spec, Explicit(shape_spec))
                = ProdKnownNotCopied

\* C5 amended: with an unknown non-copied input dimension the numerator is
\* 0, so no size mismatch is raised and a returned shape keeps its wildcard
\* unresolved: -1 from the resolver, unknown in the shape reshape sets.
C5_UnknownZeroesNumerator ==
    (Called /\ HasUnknownNotCopied)
    => /\ why # "cannot_reshape"
       /\ Returned =>
            \A w \in Wildcards(shape_spec) :
                /\ result[w] = IntV(-1)
                /\ Reshaped => new_shape[w] = None

C5_Witness ==
    /\ pc = "infer"
    /\ old_shape = <<None, IntV(6)>>
    /\ shape_spec = <<IntV(2), DIM_REST>>
    /\ exc = "none"
    /\ result = <<IntV(2), IntV(-1)>>

\* C6: a copy-marker at index i of the spec yields input_shape[i] at index
\* i of the result: the known integer, or DIM_SAME from the resolver and an
\* unknown dimension in the shape reshape sets when input_shape[i] is
\* unknown.
C6_CopyMarkerCopies ==
    Returned =>
      \A k \in Copied(shape_spec) :
          /\ k <= Len(old_shape)
          /\ result[k] = IF old_shape[k].t = "int" THEN old_shape[k]
                         ELSE DIM_SAME
          /\ Reshaped => new_shape[k] = old_shape[k]

C6_Witness ==
    /\ pc = "reshape"
    /\ old_shape = <<IntV(4), None>>
    /\ shape_spec = <<IntV(-1), DIM_SAME>>
    /\ result = <<IntV(4), DIM_SAME>>
    /\ new_shape = <<IntV(4), None>>

\* C7: a copy-marker at an index at or beyond the input rank makes the
\* resolver, and so reshape and flatten, raise ValueError and return no
\* shape, whatever the other entries are.
C7_CopyBeyondRankRejected ==
    (Called /\ \E k \in Copied(shape_spec) : k > Len(old_shape))
    => /\ exc = "ValueError"
       /\ why = "exceeds_input"
       /\ result = <<>>
       /\ new_shape = <<>>
       /\ reshape_tensor = <<>>

C7_Witness ==
    /\ pc = "flatten"
    /\ old_shape = <<>>
    /\ preserve_batch
    /\ exc = "ValueError"
    /\ why = "exceeds_input"

C9_SplitChecked ==
    pc \in {"split", "unzip"} =>
      /\ exc \in {"none", "ValueError"}
      /\ exc = "none" =>
           /\ split_dim \in 0..(Len(old_shape) - 1)
           /\ num_splits > 0
           /\ old_shape[split_dim + 1].v % num_splits = 0
      /\ exc # "none" => splits = 0

\* C10: flatten of an input of rank >= 1 succeeds; with preserve_batch the
\* shape has rank 2, the input's first dimension first and the product of
\* the remaining dimensions second when they are all known; without it the
\* shape has rank 1 and is the product of all dimensions when they are all
\* known.
C10_FlattenShape ==
    (pc = "flatten" /\ Len(old_shape) >= 1)
    => /\ exc = "none"
       /\ preserve_batch =>
            /\ Len(new_shape) = 2
            /\ new_shape[1] = old_shape[1]
            /\ (\A k \in 2..Len(old_shape) : Known(old_shape[k]))
               => new_shape[2] = IntV(ProdIdx(old_shape, 2..Len(old_shape)))
       /\ ~preserve_batch =>
            /\ Len(new_shape) = 1
            /\ (\A k \in Idx(old_shape) : Known(old_shape[k]))
               => new_shape[1] = IntV(ProdIdx(old_shape, Idx(old_shape)))

C10_Witness ==
    /\ pc = "flatten"
    /\ preserve_batch
    /\ old_shape = <<IntV(5)>>
    /\ new_shape = <<IntV(5), IntV(1)>>

\* The entries a piece of the shape argument stands for: the integers of
\* a constant, an unresolved copy-marker for a gather.
PieceEntries(p) == IF p.op = "gather" THEN <<DIM_SAME>> ELSE p.value

RECURSIVE Flatten(_)
Flatten(ps) == IF ps = <<>> THEN <<>>
               ELSE PieceEntries(Head(ps)) \o Flatten(Tail(ps))

\* Index of the spec position at which piece j starts (Python index).
PieceStart(ps, j) == Len(Flatten(SubSeq(ps, 1, j - 1)))

\* The pieces cover the resolved shape in order, every maximal run of
\* entries other than unresolved copy-markers in one non-empty constant and
\* every unresolved copy-marker at index i in one gather of dimension i.
C11_PiecesFollowRuns ==
    Reshaped =>
      /\ Flatten(reshape_tensor) = result
      /\ \A j \in Idx(reshape_tensor) :
           LET p == reshape_tensor[j]
           IN  /\ p.op \in {"constant", "gather"}
               /\ p.op = "constant" =>
                    /\ p.value # <<>>
                    /\ \A k \in Idx(p.value) : p.value[k] # DIM_SAME
                    /\ j > 1 => reshape_tensor[j - 1].op = "gather"
               /\ p.op = "gather" => p.index = PieceStart(reshape_tensor, j)

\* A resolved shape without unresolved copy-markers is passed as one
\* constant, without a concat.
C11_KnownShapeOneConstant ==
    (Reshaped /\ \A k \in Idx(result) : result[k] # DIM_SAME)
    => /\ shape_arg.op = "constant"
       /\ shape_arg.value = result

\* C11: reshape captures every maximal run of entries that are not
\* unresolved copy-markers in exactly one non-empty constant, turns each
\* unresolved copy-marker at index i into one gather of dimension i, keeps
\* the order of the spec positions, and so passes a resolved shape without
\* unresolved copy-markers as a single constant, with no concat.
C11_ShapeArgument == C11_PiecesFollowRuns /\ C11_KnownShapeOneConstant

=============================================================================
